---- MODULE Spec2Model ----
(***************************************************************************)
(* Model of the OneAuth bridge (cli/azd/pkg/oneauth/bridge/bridge.cpp):    *)
(* Authenticate, ListAccounts and Logout, run by one caller thread against *)
(* the OneAuth authenticator, whose callbacks run on the provider's own    *)
(* threads and whose login window posts messages to the caller's queue.    *)
(***************************************************************************)
EXTENDS Integers, Sequences, FiniteSets, TLC

\* bridge.cpp:12
timeoutSeconds == 60

\* seconds the clock advances in one Tick
TickStep == 30
\* invocations of the exported operations in one behaviour
MaxCalls == 2
\* messages the host event queue holds at once
MaxQueue == 1

AccountIds == {"a1", "a2"}
Apps == {"azd", "az"}
\* applicationId passed to Startup, e.g. "com.microsoft.azd"
ThisApp == "azd"
OtherApps == Apps \ {ThisApp}

\* std::optional / shared_ptr without a value, and a C null pointer
None == "none"
NULL == "null"

InteractionRequired == "Interactive authentication is required. Run 'azd auth login'"
LoginTimeout == "timed out waiting for login"
DiscoveryTimeout == "timed out waiting for account discovery"

\* the state of a std::promise that no callback has satisfied yet, and the
\* state of the caller's frame when no exported operation is running
Empty == [state |-> "empty"]
NoPromise == [state |-> "destroyed"]
Satisfied(v) == [state |-> "ready", value |-> v]
\* the value of a satisfied std::promise<void>
VoidValue == "void"

VARIABLES
    directory,   \* accounts in the provider's store
    status,      \* status[a][app]: association status of account a with app
    pc,          \* position of the caller thread
    inv,         \* number of invocations started so far
    accountID,   \* Authenticate's accountID argument
    allowPrompt, \* Authenticate's allowPrompt argument
    promise,     \* the promise on the running operation's stack frame
    inflight,    \* callbacks the provider holds and may still invoke
    now,         \* steady clock, seconds since the running operation started
    waitStart,   \* clock value when the running wait_for began
    start,       \* Authenticate's local start
    ready,       \* Authenticate's local ready
    timedOut,    \* Authenticate's local timedOut
    msgs,        \* messages posted to the caller thread's queue
    quitPosted,  \* PostQuitMessage's pending WM_QUIT
    calls,       \* provider operations the running invocation has issued
    lookup,      \* what ReadAccountById returned to the running invocation
    wasAssociated, \* whether accountID was associated with ThisApp at lookup
    result,      \* value returned by the last operation that returned
    crashed,     \* the process has terminated abnormally
    oleCount,    \* OleInitialize calls of the caller thread not yet balanced
    started,     \* OneAuth::Startup has succeeded and Shutdown has not run
    globalLogCallback, \* the static of line 14
    telemetry,   \* the correlation id of the first thread's invocation
    telemetry2,  \* the correlation id of the second thread's invocation
    pc2,         \* position of a second caller thread
    promise2,    \* the promise on the second thread's stack frame
    elapsed2,    \* seconds the second thread has spent in its wait_for
    calls2,      \* provider operations the second thread's invocation has issued
    result2      \* value returned by the second thread's last operation

vars == <<directory, status, pc, inv, accountID, allowPrompt, promise, inflight,
          now, waitStart, start, ready, timedOut, msgs, quitPosted, calls,
          lookup, wasAssociated, result, crashed, oleCount, started,
          globalLogCallback, telemetry, telemetry2, pc2, promise2, elapsed2,
          calls2, result2>>

provider == <<directory, status>>
locals == <<start, ready, timedOut>>
queue == <<msgs, quitPosted>>
args == <<accountID, allowPrompt, lookup, wasAssociated>>
life == <<oleCount, started, globalLogCallback>>
second == <<pc2, elapsed2, calls2, result2, telemetry2>>

Status == {"Associated", "Disassociated"}

----------------------------------------------------------------------------
(* The provider (OneAuth::GetAuthenticator()) as the bridge uses it. *)

\* a call into the authenticator: the operation and its account argument
Call(op, a) == <<op, a>>

\* AuthResult: GetAccount(), GetCredential(), GetError()
AuthSuccess(a, tok) == [account |-> a, credential |-> tok, error |-> None]
AuthFailure(e) == [account |-> None, credential |-> None, error |-> e]

SilentResults(a) == {AuthSuccess(a, "silentToken"), AuthFailure("silentError")}
InteractiveResults ==
    {AuthSuccess(a, "interactiveToken") : a \in AccountIds}
        \cup {AuthFailure("interactiveError")}

ReadAccountById(id) == IF id \in directory THEN id ELSE None

Associated(st, a) == st[a][ThisApp] = "Associated"

ReadAssociatedAccounts == {a \in directory : Associated(status, a)}

\* a sign-out keyed by client ID: the account is lost to every application
DisassociateAccount_EveryApp(st, a) == [st EXCEPT ![a] = [p \in Apps |-> "Disassociated"]]

\* line 226
DisassociateAccount(st, a) == [st EXCEPT ![a][ThisApp] = "Disassociated"]

OtherAppStatus(a) == IF a = "a1" THEN "Associated" ELSE "Disassociated"

----------------------------------------------------------------------------
\* the bridge with no operation running
InitOperations ==
    /\ directory \in SUBSET AccountIds
    /\ status \in [AccountIds -> [Apps -> Status]]
    \* an account the store does not hold is not associated with this application;
    \* the other applications' associations, which no operation of the bridge
    \* writes, are one fixed pattern holding both statuses
    /\ \A a \in AccountIds \ directory : status[a][ThisApp] = "Disassociated"
    /\ \A a \in AccountIds, p \in OtherApps : status[a][p] = OtherAppStatus(a)
    /\ pc = "idle"
    /\ inv = 0
    /\ accountID = ""
    /\ allowPrompt = FALSE
    /\ promise = NoPromise
    /\ inflight = {}
    /\ now = 0
    /\ waitStart = 0
    /\ start = 0
    /\ ready = FALSE
    /\ timedOut = FALSE
    /\ msgs = 0
    /\ quitPosted = FALSE
    /\ calls = <<>>
    /\ lookup = None
    /\ wasAssociated = FALSE
    /\ result = [op |-> "none"]
    /\ crashed = FALSE
    /\ telemetry = 0
    /\ telemetry2 = 0
    /\ pc2 = "idle"
    /\ promise2 = NoPromise
    /\ elapsed2 = 0
    /\ calls2 = <<>>
    /\ result2 = [op |-> "none"]

\* the bridge once Startup has succeeded
Init ==
    /\ InitOperations
    /\ oleCount = 1
    /\ started = TRUE
    /\ globalLogCallback = "logger"

----------------------------------------------------------------------------
(* Authenticate, bridge.cpp:145-216 *)

Hints == {""} \cup AccountIds

\* a WrappedAuthResult allocated without value-initialisation
UninitWrappedAuthResult == [accountID |-> "a1", errorDescription |-> NULL, token |-> "silentToken"]

\* new WrappedAuthResult(), lines 126, 173, 208: every field null
NewWrappedAuthResult == [accountID |-> NULL, errorDescription |-> NULL, token |-> NULL]

\* wrapAuthResult without its lines 137-141: the error is not copied
wrapAuthResult_NoError(ar) ==
    LET wrapped == NewWrappedAuthResult
    IN [accountID |-> IF ar.account # None THEN ar.account ELSE wrapped.accountID,
        token |-> IF ar.credential # None THEN ar.credential ELSE wrapped.token,
        errorDescription |-> wrapped.errorDescription]

\* lines 124-143: each field is copied only when the AuthResult holds it
wrapAuthResult(ar) ==
    LET wrapped == NewWrappedAuthResult
    IN [accountID |-> IF ar.account # None THEN ar.account ELSE wrapped.accountID,
        token |-> IF ar.credential # None THEN ar.credential ELSE wrapped.token,
        errorDescription |-> IF ar.error # None THEN ar.error
                             ELSE wrapped.errorDescription]

IsReady == promise.state = "ready"

\* the callbacks the provider still holds once the frame of thread t, which
\* they refer to, is gone
OrphanedOf(t, cbs) == {IF cb.owner = t THEN [cb EXCEPT !.live = FALSE] ELSE cb : cb \in cbs}
Orphaned(cbs) == OrphanedOf(1, cbs)

\* UUID::Generate (lines 70, 148, 220): an id no earlier invocation was given
UUID_Generate == inv + 1

\* a return statement of Authenticate: the frame, and the promise on it, die
AuthReturn(war) ==
    /\ result' = [op |-> "Authenticate", value |-> war]
    /\ promise' = NoPromise
    /\ pc' = "idle"
    /\ inflight' = Orphaned(inflight)
    /\ now' = 0 /\ waitStart' = 0
    /\ start' = 0 /\ ready' = FALSE /\ timedOut' = FALSE

\* lines 147-163: the synchronous prefix up to the silent wait
Authenticate(id, prompt) ==
    /\ pc = "idle" /\ ~crashed /\ inv < MaxCalls
    /\ inv' = inv + 1
    /\ accountID' = id
    /\ allowPrompt' = prompt
    /\ promise' = Empty
    /\ now' = 0
    /\ result' = [op |-> "none"]
    /\ wasAssociated' = (id \in directory /\ Associated(status, id))
    /\ IF id # ""
         THEN /\ lookup' = ReadAccountById(id)
              /\ IF lookup' # None
                   THEN /\ calls' = <<Call("ReadAccountById", id),
                                    Call("AcquireCredentialSilently", lookup')>>
                        /\ inflight' = inflight \cup
                               {[owner |-> 1, live |-> TRUE, kind |-> "silent", account |-> lookup']}
                        /\ pc' = "silentWait"
                   ELSE /\ calls' = <<Call("ReadAccountById", id)>>
                        /\ inflight' = inflight
                        /\ pc' = "checkReady"
         ELSE /\ lookup' = None
              /\ calls' = <<>>
              /\ inflight' = inflight
              /\ pc' = "checkReady"
    /\ waitStart' = 0
    /\ UNCHANGED <<provider, locals, queue, crashed>>
    /\ telemetry' = UUID_Generate
    /\ UNCHANGED <<life, second, promise2>>

\* the wait of line 163 without its deadline: future.wait()
SilentWaitReturns_NoDeadline ==
    /\ pc = "silentWait" /\ ~crashed
    /\ IsReady
    /\ pc' = "checkReady"
    /\ UNCHANGED <<provider, inv, args, promise, inflight, now, waitStart, locals,
                   queue, calls, result, crashed>>
    /\ UNCHANGED <<life, second, promise2, telemetry>>

\* line 163: future.wait_for(timeoutSeconds) returns, ready or timed out
SilentWaitReturns ==
    /\ pc = "silentWait" /\ ~crashed
    /\ IsReady \/ now - waitStart >= timeoutSeconds
    /\ pc' = "checkReady"
    /\ UNCHANGED <<provider, inv, args, promise, inflight, now, waitStart, locals,
                   queue, calls, result, crashed>>
    /\ UNCHANGED <<life, second, promise2, telemetry>>

\* lines 169-193 with the test of line 169 always taken: the prompt gate and the
\* sign-in come whether or not the future is ready
CheckReady_NoReadyTest ==
    /\ pc = "checkReady" /\ ~crashed
    /\ IF ~allowPrompt
         THEN /\ AuthReturn([NewWrappedAuthResult EXCEPT
                                !.errorDescription = InteractionRequired])
              /\ UNCHANGED calls
         ELSE /\ calls' = Append(calls, Call("SignInInteractively", ""))
              /\ inflight' = inflight \cup
                     {[owner |-> 1, live |-> TRUE, kind |-> "interactive", account |-> None]}
              /\ pc' = "pumpInit"
              /\ UNCHANGED <<promise, result, now, waitStart, locals>>
    /\ UNCHANGED <<provider, inv, args, queue, crashed>>
    /\ UNCHANGED <<life, second, promise2, telemetry>>

\* lines 169-193: the readiness test, the prompt gate, SignInInteractively
CheckReady ==
    /\ pc = "checkReady" /\ ~crashed
    /\ IF IsReady
         THEN /\ pc' = "get"
              /\ UNCHANGED <<promise, inflight, calls, result, now, waitStart, locals>>
         ELSE IF ~allowPrompt
                THEN /\ AuthReturn([NewWrappedAuthResult EXCEPT
                                       !.errorDescription = InteractionRequired])
                     /\ UNCHANGED calls
                ELSE /\ calls' = Append(calls, Call("SignInInteractively", ""))
                     /\ inflight' = inflight \cup
                            {[owner |-> 1, live |-> TRUE, kind |-> "interactive", account |-> None]}
                     /\ pc' = "pumpInit"
                     /\ UNCHANGED <<promise, result, now, waitStart, locals>>
    /\ UNCHANGED <<provider, inv, args, queue, crashed>>
    /\ UNCHANGED <<life, second, promise2, telemetry>>

\* lines 190-193
PumpInit ==
    /\ pc = "pumpInit" /\ ~crashed
    /\ ready' = IsReady
    /\ start' = now
    /\ timedOut' = FALSE
    /\ pc' = "pumpTest"
    /\ UNCHANGED <<provider, inv, args, promise, inflight, now, waitStart, queue,
                   calls, result, crashed>>
    /\ UNCHANGED <<life, second, promise2, telemetry>>

\* lines 194-211 with a second sign-in in place of the first timeout return
PumpTest_Retry ==
    /\ pc = "pumpTest" /\ ~crashed
    /\ IF ~(ready \/ timedOut)
         THEN /\ pc' = "getMessage"
              /\ UNCHANGED <<promise, inflight, result, now, waitStart, locals, calls>>
         ELSE IF timedOut
                THEN IF Len(calls) < 3
                       THEN /\ calls' = Append(calls, Call("SignInInteractively", ""))
                            /\ pc' = "pumpInit"
                            /\ UNCHANGED <<promise, inflight, result, now, waitStart,
                                           locals>>
                       ELSE /\ AuthReturn([NewWrappedAuthResult EXCEPT
                                              !.errorDescription = LoginTimeout])
                            /\ UNCHANGED calls
                ELSE /\ pc' = "get"
                     /\ UNCHANGED <<promise, inflight, result, now, waitStart, locals,
                                    calls>>
    /\ UNCHANGED <<provider, inv, args, queue, crashed>>
    /\ UNCHANGED <<life, second, promise2, telemetry>>

\* line 194, and lines 206-211 with the test of ready ahead of the test of
\* timedOut
PumpTest_ReadyFirst ==
    /\ pc = "pumpTest" /\ ~crashed
    /\ IF ~(ready \/ timedOut)
         THEN /\ pc' = "getMessage"
              /\ UNCHANGED <<promise, inflight, result, now, waitStart, locals>>
         ELSE IF ready
                THEN /\ pc' = "get"
                     /\ UNCHANGED <<promise, inflight, result, now, waitStart, locals>>
                ELSE AuthReturn([NewWrappedAuthResult EXCEPT
                                    !.errorDescription = LoginTimeout])
    /\ UNCHANGED <<provider, inv, args, queue, calls, crashed>>
    /\ UNCHANGED <<life, second, promise2, telemetry>>

\* line 194, and lines 206-211 once the loop is left
PumpTest ==
    /\ pc = "pumpTest" /\ ~crashed
    /\ IF ~(ready \/ timedOut)
         THEN /\ pc' = "getMessage"
              /\ UNCHANGED <<promise, inflight, result, now, waitStart, locals>>
         ELSE IF timedOut
                THEN AuthReturn([NewWrappedAuthResult EXCEPT
                                    !.errorDescription = LoginTimeout])
                ELSE /\ pc' = "get"
                     /\ UNCHANGED <<promise, inflight, result, now, waitStart, locals>>
    /\ UNCHANGED <<provider, inv, args, queue, calls, crashed>>
    /\ UNCHANGED <<life, second, promise2, telemetry>>

\* lines 196-204: GetMessage blocks until the queue holds a message
PumpMessage ==
    /\ pc = "getMessage" /\ ~crashed
    /\ msgs > 0 \/ quitPosted
    /\ ready' = IsReady
    /\ timedOut' = (now - start >= timeoutSeconds)
    /\ msgs' = IF msgs > 0 THEN msgs - 1 ELSE msgs
    /\ quitPosted' = IF ready' \/ timedOut' THEN TRUE
                     ELSE IF msgs > 0 THEN quitPosted ELSE FALSE
    /\ pc' = "pumpTest"
    /\ UNCHANGED <<provider, inv, args, promise, inflight, now, waitStart, start,
                   calls, result, crashed>>
    /\ UNCHANGED <<life, second, promise2, telemetry>>

\* lines 214-215
GetAndWrap ==
    /\ pc = "get" /\ ~crashed
    /\ AuthReturn(wrapAuthResult(promise.value))
    /\ UNCHANGED <<provider, inv, args, queue, calls, crashed>>
    /\ UNCHANGED <<life, second, promise2, telemetry>>

----------------------------------------------------------------------------
(* ListAccounts, bridge.cpp:63-118 *)

\* position of an account in the store, of an application in an association map
Rank(x) == IF x \in {"a1", "azd"} THEN 1 ELSE 2

RECURSIVE SeqOf(_)
\* the elements of a finite set in the order the provider enumerates them
SeqOf(S) ==
    IF S = {} THEN <<>>
    ELSE LET x == CHOOSE y \in S : \A z \in S : Rank(y) <= Rank(z)
         IN <<x>> \o SeqOf(S \ {x})

ReadAllAccounts == SeqOf(directory)

\* lines 97-105 without the test of line 101: every application of the map
associatedWith_AnyStatus(a) == SeqOf({p \in Apps : status[a][p] \in Status})

\* lines 97-105: the applications whose status is AssociationStatus::Associated
associatedWith(a) == SeqOf({p \in Apps : status[a][p] = "Associated"})

\* lines 92-115
WrappedAccount(a) ==
    LET size == Len(associatedWith(a))
    IN [id |-> a,
        associationCount |-> size,
        associations |-> IF size # 0 THEN associatedWith(a) ELSE NULL]

ListReturn(wa) ==
    /\ result' = [op |-> "ListAccounts", value |-> wa]
    /\ promise' = NoPromise
    /\ pc' = "idle"
    /\ inflight' = Orphaned(inflight)
    /\ now' = 0 /\ waitStart' = 0

\* lines 65-79
ListAccounts ==
    /\ pc = "idle" /\ ~crashed /\ inv < MaxCalls
    /\ inv' = inv + 1
    /\ promise' = Empty
    /\ now' = 0
    /\ waitStart' = 0
    /\ result' = [op |-> "none"]
    /\ calls' = <<Call("DiscoverAccounts", None)>>
    /\ inflight' = inflight \cup {[owner |-> 1, live |-> TRUE, kind |-> "discover", account |-> None]}
    /\ pc' = "listWait"
    /\ UNCHANGED <<provider, args, locals, queue, crashed>>
    /\ telemetry' = UUID_Generate
    /\ UNCHANGED <<life, second, promise2>>

\* lines 80-117 without the return of line 84: the directory is read after a
\* timeout as well
ListWaitReturns_NoEarlyReturn ==
    /\ pc = "listWait" /\ ~crashed
    /\ IsReady \/ now - waitStart >= timeoutSeconds
    /\ calls' = Append(calls, Call("ReadAllAccounts", None))
    /\ ListReturn([accounts |-> [i \in 1..Len(ReadAllAccounts) |->
                                    WrappedAccount(ReadAllAccounts[i])],
                   count |-> Len(ReadAllAccounts),
                   err |-> IF IsReady THEN NULL ELSE DiscoveryTimeout])
    /\ UNCHANGED <<provider, inv, args, locals, queue, crashed>>
    /\ UNCHANGED <<life, second, promise2, telemetry>>

\* lines 80-117: wait_for returns; the timeout return or the directory read
ListWaitReturns ==
    /\ pc = "listWait" /\ ~crashed
    /\ IsReady \/ now - waitStart >= timeoutSeconds
    /\ IF ~IsReady
         THEN /\ ListReturn([accounts |-> NULL, count |-> 0, err |-> DiscoveryTimeout])
              /\ UNCHANGED calls
         ELSE /\ calls' = Append(calls, Call("ReadAllAccounts", None))
              /\ ListReturn([accounts |-> [i \in 1..Len(ReadAllAccounts) |->
                                              WrappedAccount(ReadAllAccounts[i])],
                             count |-> Len(ReadAllAccounts),
                             err |-> NULL])
    /\ UNCHANGED <<provider, inv, args, locals, queue, crashed>>
    /\ UNCHANGED <<life, second, promise2, telemetry>>

----------------------------------------------------------------------------
(* Logout, bridge.cpp:218-228 *)

RECURSIVE DisassociateEach(_, _)
\* lines 221-227: the loop over the accounts ReadAssociatedAccounts returned
DisassociateEach(st, as) ==
    IF as = <<>> THEN st
    ELSE DisassociateEach(DisassociateAccount(st, Head(as)), Tail(as))

Logout ==
    /\ pc = "idle" /\ ~crashed /\ inv < MaxCalls
    /\ inv' = inv + 1
    /\ status' = DisassociateEach(status, SeqOf(ReadAssociatedAccounts))
    /\ calls' = <<Call("ReadAssociatedAccounts", None)>> \o
                    [i \in 1..Len(SeqOf(ReadAssociatedAccounts)) |->
                        Call("DisassociateAccount", SeqOf(ReadAssociatedAccounts)[i])]
    /\ result' = [op |-> "Logout"]
    /\ UNCHANGED <<directory, pc, args, promise, inflight, now, waitStart, locals,
                   queue, crashed>>
    /\ telemetry' = UUID_Generate
    /\ UNCHANGED <<life, second, promise2>>

----------------------------------------------------------------------------
(* The environment: the provider's threads, the login window, the clock. *)

FrameAlive(cb) == cb.live

\* the promise a callback's captured reference designates: the one on the
\* stack of the thread that registered the callback
CellOf(cb) == IF cb.owner = 1 THEN promise ELSE promise2

\* the frame now standing where the callback's frame stood holds a promise of
\* the type the callback was written for: std::promise<void> in ListAccounts
\* (line 69), std::promise<AuthResult> in Authenticate (line 150)
SameCellType(cb) ==
    IF cb.owner = 1 THEN (cb.kind = "discover") = (pc = "listWait") ELSE cb.kind = "discover"

Store(cb, v) ==
    IF cb.owner = 1
      THEN promise' = Satisfied(v) /\ promise2' = promise2
      ELSE promise2' = Satisfied(v) /\ promise' = promise

\* promise.set_value run by a callback (lines 75 and 154).  On a live, unsatisfied
\* promise it stores the value.  On a promise already satisfied it throws
\* std::future_error into the provider's thread, which may pass unnoticed or
\* end the process.  On the promise of a frame that has returned the reference
\* dangles: the write may pass unnoticed, end the process, or land in the
\* promise a later invocation on the same thread has placed at that address.
set_value(cb, v) ==
    IF FrameAlive(cb) /\ CellOf(cb) = Empty
      THEN Store(cb, v) /\ crashed' = crashed
      ELSE \/ UNCHANGED <<promise, promise2>> /\ crashed' \in BOOLEAN
           \/ /\ ~FrameAlive(cb) /\ CellOf(cb) = Empty /\ SameCellType(cb)
              /\ Store(cb, v) /\ crashed' = crashed

\* the callback of AcquireCredentialSilently, lines 152-155
SilentCallback(cb, res) ==
    /\ cb \in inflight /\ cb.kind = "silent" /\ ~crashed
    /\ res \in SilentResults(cb.account)
    /\ inflight' = inflight \ {cb}
    /\ set_value(cb, res)
    /\ UNCHANGED <<provider, pc, inv, args, now, waitStart, locals, queue, calls, result>>
    /\ UNCHANGED <<life, second, telemetry>>

\* the callback of SignInInteractively, lines 152-155.  A sign-in that succeeded
\* has stored the account; whether it also associated it with this application
\* is the provider's choice.
InteractiveCallback(cb, res, associate) ==
    /\ cb \in inflight /\ cb.kind = "interactive" /\ ~crashed
    /\ res \in InteractiveResults
    /\ inflight' = inflight \ {cb}
    /\ IF res.account # None
         THEN /\ directory' = directory \cup {res.account}
              /\ status' = IF associate
                             THEN [status EXCEPT ![res.account][ThisApp] = "Associated"]
                             ELSE status
         ELSE UNCHANGED provider
    /\ set_value(cb, res)
    /\ UNCHANGED <<pc, inv, args, now, waitStart, locals, queue, calls, result>>
    /\ UNCHANGED <<life, second, telemetry>>

\* lines 71-78 without the test of line 73: every discovery result satisfies
\* the promise
DiscoveryCallback_FillsAlways(cb, completed, found) ==
    /\ cb \in inflight /\ cb.kind = "discover" /\ ~crashed
    /\ directory' = directory \cup found
    /\ IF completed
         THEN inflight' = inflight \ {cb}
         ELSE found # {} /\ inflight' = inflight
    /\ set_value(cb, VoidValue)
    /\ UNCHANGED <<status, pc, inv, args, now, waitStart, locals, queue, calls, result>>
    /\ UNCHANGED <<life, second, telemetry>>

\* the callback of DiscoverAccounts, lines 71-78: it satisfies the promise and
\* unregisters itself only when discovery IsCompleted
DiscoveryCallback(cb, completed, found) ==
    /\ cb \in inflight /\ cb.kind = "discover" /\ ~crashed
    /\ directory' = directory \cup found
    /\ IF completed
         THEN /\ inflight' = inflight \ {cb}
              /\ set_value(cb, VoidValue)
         ELSE /\ found # {}
              /\ UNCHANGED <<inflight, promise, promise2, crashed>>
    /\ UNCHANGED <<status, pc, inv, args, now, waitStart, locals, queue, calls, result>>
    /\ UNCHANGED <<life, second, telemetry>>

InPump == pc \in {"pumpInit", "pumpTest", "getMessage"}

\* the login window posts a message to the caller thread's queue
HostEvent ==
    /\ ~crashed
    /\ InPump \/ \E cb \in inflight : cb.kind = "interactive"
    /\ msgs < MaxQueue
    /\ msgs' = msgs + 1
    /\ UNCHANGED <<provider, pc, inv, args, promise, inflight, now, waitStart, locals,
                   quitPosted, calls, result, crashed>>
    /\ UNCHANGED <<life, second, promise2, telemetry>>

\* time passes while the caller thread is blocked in a wait; the clock is not
\* followed beyond the deadline of that wait, after which its value decides nothing
Tick ==
    /\ ~crashed
    /\ \/ pc \in {"silentWait", "listWait"} /\ now - waitStart < timeoutSeconds
       \/ pc = "getMessage" /\ now - start < timeoutSeconds
    /\ now' = now + TickStep
    /\ UNCHANGED <<provider, pc, inv, args, promise, inflight, waitStart, locals, queue,
                   calls, result, crashed>>
    /\ UNCHANGED <<life, second, promise2, telemetry>>

----------------------------------------------------------------------------
Caller ==
    \/ SilentWaitReturns
    \/ CheckReady
    \/ PumpInit
    \/ PumpTest
    \/ PumpMessage
    \/ GetAndWrap
    \/ ListWaitReturns

Next ==
    \/ \E id \in Hints, prompt \in BOOLEAN : Authenticate(id, prompt)
    \/ ListAccounts
    \/ Logout
    \/ Caller
    \/ \E cb \in inflight : \E res \in SilentResults(cb.account) : SilentCallback(cb, res)
    \/ \E cb \in inflight, res \in InteractiveResults, associate \in BOOLEAN :
           InteractiveCallback(cb, res, associate)
    \/ \E cb \in inflight, completed \in BOOLEAN :
           \E found \in {{}} \cup {{a} : a \in AccountIds \ directory} :
               DiscoveryCallback(cb, completed, found)
    \/ HostEvent
    \/ Tick

Spec == Init /\ [][Next]_vars

\* the caller thread keeps running and the clock keeps advancing; nothing
\* obliges the provider to call back or the login window to post a message
FairSpec == Spec /\ WF_vars(Caller) /\ WF_vars(Tick)

----------------------------------------------------------------------------
(* Startup and Shutdown, bridge.cpp:23-61 *)

OleInitFailed == "OleInitialize failed"
ProviderStartupError == "provider startup error"

\* the HRESULTs OleInitialize can return on a thread whose initialization count
\* is n: S_OK on the first initialization, S_FALSE on a repeated one, a failure
\* code at any time
OleInitResults(n) == (IF n = 0 THEN {"S_OK"} ELSE {"S_FALSE"}) \cup {"E_FAIL"}

\* the process before Startup has been called; the host may have initialized
\* OLE on the caller thread already
LifeInit ==
    /\ InitOperations
    /\ oleCount \in {0, 1}
    /\ started = FALSE
    /\ globalLogCallback = None

\* lines 23-55
Startup(OleInitResult, error) ==
    /\ pc = "idle" /\ ~crashed /\ ~started /\ inv < MaxCalls
    /\ OleInitResult \in OleInitResults(oleCount)
    /\ inv' = inv + 1
    /\ IF OleInitResult # "S_OK" /\ OleInitResult # "S_FALSE"
         THEN /\ result' = [op |-> "Startup", err |-> OleInitFailed]
              /\ calls' = <<Call("OleInitialize", None)>>
              /\ UNCHANGED life
         ELSE /\ oleCount' = oleCount + 1
              /\ globalLogCallback' = "logger"
              /\ calls' = <<Call("OleInitialize", None), Call("OneAuth::Startup", None)>>
              /\ IF error # None
                   THEN /\ result' = [op |-> "Startup", err |-> error]
                        /\ started' = FALSE
                   ELSE /\ result' = [op |-> "Startup", err |-> NULL]
                        /\ started' = TRUE
    /\ UNCHANGED <<provider, pc, args, promise, inflight, now, waitStart, locals,
                   queue, crashed, second, promise2, telemetry>>

\* lines 57-61
Shutdown ==
    /\ pc = "idle" /\ ~crashed /\ started
    /\ started' = FALSE
    /\ oleCount' = oleCount - 1
    /\ calls' = <<Call("OneAuth::Shutdown", None), Call("OleUninitialize", None)>>
    /\ result' = [op |-> "Shutdown"]
    /\ UNCHANGED <<provider, pc, inv, args, promise, inflight, now, waitStart, locals,
                   queue, crashed, globalLogCallback, second, promise2, telemetry>>

\* the operations are called between a successful Startup and Shutdown
LifeNext ==
    \/ \E r \in {"S_OK", "S_FALSE", "E_FAIL"}, error \in {None, ProviderStartupError} :
           Startup(r, error)
    \/ Shutdown
    \/ started /\ Next

LifeSpec == LifeInit /\ [][LifeNext]_vars

----------------------------------------------------------------------------
(* A second caller thread running ListAccounts (bridge.cpp:63-118) while the
   first runs any operation.  Its frame, promise and telemetry id are its own;
   the provider and its callbacks are shared. *)

ListReturn2(wa) ==
    /\ result2' = [op |-> "ListAccounts", value |-> wa]
    /\ promise2' = NoPromise
    /\ pc2' = "idle"
    /\ inflight' = OrphanedOf(2, inflight)
    /\ elapsed2' = 0

\* lines 65-79
ListAccounts2 ==
    /\ pc2 = "idle" /\ ~crashed /\ inv < MaxCalls
    /\ inv' = inv + 1
    /\ telemetry2' = UUID_Generate
    /\ promise2' = Empty
    /\ elapsed2' = 0
    /\ result2' = [op |-> "none"]
    /\ calls2' = <<Call("DiscoverAccounts", None)>>
    /\ inflight' = inflight \cup {[owner |-> 2, live |-> TRUE, kind |-> "discover", account |-> None]}
    /\ pc2' = "listWait"
    /\ UNCHANGED <<provider, pc, args, promise, now, waitStart, locals, queue, calls,
                   result, crashed, life, telemetry>>

\* lines 80-117
ListWaitReturns2 ==
    /\ pc2 = "listWait" /\ ~crashed
    /\ promise2.state = "ready" \/ elapsed2 >= timeoutSeconds
    /\ IF promise2.state # "ready"
         THEN /\ ListReturn2([accounts |-> NULL, count |-> 0, err |-> DiscoveryTimeout])
              /\ UNCHANGED calls2
         ELSE /\ calls2' = Append(calls2, Call("ReadAllAccounts", None))
              /\ ListReturn2([accounts |-> [i \in 1..Len(ReadAllAccounts) |->
                                               WrappedAccount(ReadAllAccounts[i])],
                              count |-> Len(ReadAllAccounts),
                              err |-> NULL])
    /\ UNCHANGED <<provider, pc, inv, args, promise, now, waitStart, locals, queue,
                   calls, result, crashed, life, telemetry, telemetry2>>

\* time passes while the second thread is blocked in wait_for
Tick2 ==
    /\ ~crashed
    /\ pc2 = "listWait" /\ elapsed2 < timeoutSeconds
    /\ elapsed2' = elapsed2 + TickStep
    /\ UNCHANGED <<provider, pc, inv, args, promise, inflight, now, waitStart, locals,
                   queue, calls, result, crashed, life, telemetry, telemetry2, pc2,
                   promise2, calls2, result2>>

ConcNext ==
    \/ Next
    \/ ListAccounts2
    \/ ListWaitReturns2
    \/ Tick2

ConcSpec == Init /\ [][ConcNext]_vars

----------------------------------------------------------------------------
(* Vocabulary of the properties. *)

Issued(op) == \E i \in DOMAIN calls : calls[i][1] = op

\* Authenticate has returned and no later operation has started
AuthReturned == pc = "idle" /\ result.op = "Authenticate"
ListReturned == pc = "idle" /\ result.op = "ListAccounts"

InAuthenticate == pc \in {"silentWait", "checkReady", "pumpInit", "pumpTest", "getMessage", "get"}

InteractionRequiredOutcome ==
    [accountID |-> NULL, errorDescription |-> InteractionRequired, token |-> NULL]
TimeoutOutcome ==
    [accountID |-> NULL, errorDescription |-> LoginTimeout, token |-> NULL]

\* the returned outcome is what a silent acquisition delivered
FromSilent(war) == war.token = "silentToken" \/ war.errorDescription = "silentError"

\* accountID is empty or names no account associated with this application
UnmatchedHint == accountID = "" \/ ~wasAssociated

----------------------------------------------------------------------------
\* C1: an Authenticate call whose accountID is empty or matches no account
\* associated with this application never returns the result of a silent
\* acquisition: with allowPrompt it has issued the interactive sign-in, without
\* it returns the InteractionRequired error.
C1_UnmatchedHintNeverSilent ==
    AuthReturned /\ UnmatchedHint
        => /\ ~FromSilent(result.value)
           /\ IF allowPrompt THEN Issued("SignInInteractively")
              ELSE result.value = InteractionRequiredOutcome

\* the silent phase of the returned call yielded no credential
SilentUnsatisfied == result.value.token # "silentToken"

\* C2: when the silent phase did not satisfy the request and allowPrompt is
\* false, Authenticate returns the InteractionRequired error and never issues the
\* interactive sign-in; with an empty accountID it calls the provider not at all.
C2_NoPromptInteractionRequired ==
    /\ (InAuthenticate \/ AuthReturned) /\ ~allowPrompt
           => ~Issued("SignInInteractively")
    /\ AuthReturned /\ ~allowPrompt /\ SilentUnsatisfied
           => /\ result.value = InteractionRequiredOutcome
              /\ accountID = "" => calls = <<>>

\* C3: a silent attempt that completes in time with a failure is handled like a
\* miss: the call goes on to the prompt gate, and the silent attempt's error is
\* never the errorDescription returned.
C3_SilentFailureFallsBack ==
    /\ pc = "get" /\ promise.state = "ready"
           => promise.value.error # "silentError"
    /\ AuthReturned
           => /\ result.value.errorDescription # "silentError"
              /\ SilentUnsatisfied =>
                    IF allowPrompt THEN Issued("SignInInteractively")
                    ELSE result.value = InteractionRequiredOutcome

----------------------------------------------------------------------------
\* C4: once the interactive sign-in has been issued, Authenticate returns, also
\* when the provider never calls back and the queue receives no further message.
C4_InteractiveWaitReturns == InPump ~> (pc = "idle" \/ crashed)

WrappedResults ==
    {wrapAuthResult(r) : r \in InteractiveResults \cup UNION {SilentResults(a) : a \in AccountIds}}

SuccessOutcome(war) == war.token # NULL /\ war.errorDescription = NULL

\* C5 as stated: a call that entered the interactive phase returns a success
\* outcome or the Timeout outcome, one and not the other, and a Timeout outcome
\* carries neither token nor account.
C5_SuccessOrTimeout ==
    AuthReturned /\ Issued("SignInInteractively")
        => /\ SuccessOutcome(result.value) # (result.value.errorDescription = LoginTimeout)
           /\ result.value.errorDescription = LoginTimeout
                  => result.value.token = NULL /\ result.value.accountID = NULL

\* C5 amended: a call that entered the interactive phase returns either the
\* wrapped AuthResult its promise was satisfied with (a credential with its
\* account, or the provider's error) or the Timeout outcome, one and not the
\* other, and a Timeout outcome carries neither token nor account.
C5_ResultOrTimeout ==
    AuthReturned /\ Issued("SignInInteractively")
        => /\ (result.value \in WrappedResults) # (result.value.errorDescription = LoginTimeout)
           /\ result.value.errorDescription = LoginTimeout
                  => result.value.token = NULL /\ result.value.accountID = NULL

C5_Witness ==
    /\ AuthReturned /\ Issued("SignInInteractively")
    /\ result.value = TimeoutOutcome
    /\ \E cb \in inflight : cb.kind = "interactive"

----------------------------------------------------------------------------
SilentDeadlineElapsed == now - waitStart >= timeoutSeconds

\* C6: the silent wait ends when the callback has satisfied the promise or the
\* deadline has elapsed, and not before; it then reaches the readiness test,
\* from which a call whose promise is still unsatisfied takes the prompt gate
\* (InteractionRequired, or the interactive sign-in) and neither returns a
\* result nor waits again.
C6_SilentWaitBounded ==
    /\ [](pc = "silentWait" /\ ~crashed /\ (IsReady \/ SilentDeadlineElapsed)
             => ENABLED SilentWaitReturns)
    /\ [][/\ pc = "silentWait" /\ pc' # "silentWait"
                => (IsReady \/ SilentDeadlineElapsed) /\ pc' = "checkReady"
          /\ pc = "checkReady" /\ pc' # "checkReady" /\ ~IsReady
                => IF allowPrompt
                     THEN pc' = "pumpInit" /\ Issued("SignInInteractively")'
                     ELSE pc' = "idle" /\ result'.value = InteractionRequiredOutcome]_vars

C6_Witness ==
    /\ pc = "pumpInit" /\ ~IsReady
    /\ Issued("AcquireCredentialSilently")
    /\ now >= timeoutSeconds
    /\ \E cb \in inflight : cb.kind = "silent" /\ cb.live

----------------------------------------------------------------------------
Range(f) == {f[i] : i \in DOMAIN f}

\* what a ListAccounts that succeeded now would report about account a
ListedWith(a, app) ==
    /\ \E i \in DOMAIN ReadAllAccounts : ReadAllAccounts[i] = a
    /\ WrappedAccount(a).associationCount > 0
    /\ app \in Range(WrappedAccount(a).associations)

\* C7: after Authenticate has succeeded through the interactive path the account
\* it returned is associated with this application, and ListAccounts lists it
\* with this application among its associations.
C7_InteractiveSuccessAssociates ==
    AuthReturned /\ result.value.token = "interactiveToken"
        => ListedWith(result.value.accountID, ThisApp)

\* the accounts the Logout that just returned has disassociated
LoggedOut == {calls[i][2] : i \in {j \in DOMAIN calls : calls[j][1] = "DisassociateAccount"}}

\* C8: an Authenticate that follows Logout with the accountID of an account the
\* Logout disassociated attempts no silent acquisition and goes to the prompt gate.
C8_LogoutThenUnmatched ==
    [][(/\ pc = "idle" /\ result.op = "Logout"
        /\ pc' \in {"silentWait", "checkReady"}
        /\ accountID' \in LoggedOut
        /\ ~wasAssociated')
          => pc' = "checkReady" /\ ~Issued("AcquireCredentialSilently")']_vars

----------------------------------------------------------------------------
\* C9: when discovery has not completed by the deadline ListAccounts returns no
\* account and the timeout error without calling ReadAllAccounts, and no result
\* holds both accounts and an error.
C9_DiscoveryTimeoutNoAccounts ==
    [][pc = "listWait" /\ pc' = "idle"
         => /\ ~IsReady => /\ result'.value.count = 0
                           /\ result'.value.err = DiscoveryTimeout
                           /\ calls' = calls
            /\ IsReady => result'.value.err = NULL /\ Issued("ReadAllAccounts")'
            /\ ~(result'.value.count > 0 /\ result'.value.err # NULL)]_vars

C9_Witness ==
    /\ ListReturned
    /\ result.value.err = DiscoveryTimeout
    /\ directory # {}
    /\ \E cb \in inflight : cb.kind = "discover"

----------------------------------------------------------------------------
\* C10: Logout disassociates each account associated with this application, one
\* call per account; when it returns no account is associated with this
\* application and every association with another application is as it was.
C10_LogoutDisassociatesAll ==
    [][inv' = inv + 1 /\ result'.op = "Logout"
         => /\ \A a \in AccountIds : ~Associated(status', a)
            /\ \A a \in AccountIds, p \in OtherApps : status'[a][p] = status[a][p]
            /\ LoggedOut' = ReadAssociatedAccounts
            /\ Len(calls') = 1 + Cardinality(ReadAssociatedAccounts)]_vars

C10_Witness ==
    /\ pc = "idle" /\ result.op = "Logout"
    /\ Cardinality(LoggedOut) = 2
    /\ \E a \in LoggedOut, p \in OtherApps : status[a][p] = "Associated"

----------------------------------------------------------------------------
\* the promise holds the credential of the silent acquisition and no
\* interactive sign-in has been issued: the silent attempt succeeded in time
SilentSucceeded ==
    /\ wasAssociated
    /\ IsReady /\ promise.value = AuthSuccess(lookup, "silentToken")
    /\ ~Issued("SignInInteractively")

\* C11: when accountID matches an associated account and the silent acquisition
\* delivers a credential in time, Authenticate goes from the wait to the return
\* without another provider call, whatever allowPrompt is, returns that
\* credential with its account and no error, and writes no association.
C11_SilentSuccessReturned ==
    [][InAuthenticate /\ SilentSucceeded /\ pc' # pc
         => /\ pc \in {"silentWait", "checkReady", "get"}
            /\ pc' = IF pc = "silentWait" THEN "checkReady"
                     ELSE IF pc = "checkReady" THEN "get" ELSE "idle"
            /\ calls' = calls
            /\ status' = status
            /\ pc = "get" => result'.value =
                   [accountID |-> accountID, errorDescription |-> NULL,
                    token |-> "silentToken"]]_vars

C11_Witness ==
    /\ AuthReturned /\ wasAssociated /\ allowPrompt
    /\ result.value.token = "silentToken"
    /\ result.value.errorDescription = NULL
    /\ calls = <<Call("ReadAccountById", accountID),
                Call("AcquireCredentialSilently", accountID)>>

----------------------------------------------------------------------------
Present(field) == field # NULL

----------------------------------------------------------------------------
\* a step in which the provider invokes a callback bound to the running frame,
\* and one in which it invokes a callback whose frame has returned
LiveCallbackFires == pc' = pc /\ \E cb \in inflight \ inflight' : cb.live
LateCallbackFires == pc' = pc /\ \E cb \in inflight \ inflight' : ~cb.live

\* C15: the interactive sign-in completes a cell of its own, so the silent and
\* the interactive callback are never bound to one promise, and no callback
\* completes a promise that has been completed already.
C15_CellCompletedOnce ==
    /\ [](~\E s \in inflight, i \in inflight :
              s.live /\ i.live /\ s.kind = "silent" /\ i.kind = "interactive")
    /\ [][LiveCallbackFires => promise.state = "empty"]_vars

\* C16: a callback that fires after the operation that issued it has returned
\* is without effect.
C16_LateCallbackHarmless ==
    [][LateCallbackFires => UNCHANGED <<promise, crashed>>]_vars

\* C17: Authenticate is never blocked in GetMessage while the promise is
\* satisfied, whether the callback came before or after the readiness test
\* that precedes the loop.
C17_NeverBlockedWhenReady ==
    ~(pc = "getMessage" /\ IsReady /\ msgs = 0 /\ ~quitPosted)

----------------------------------------------------------------------------
\* the applications the returned entry lists for its account
ListedApps(wa) ==
    IF wa.associationCount = 0 THEN {} ELSE Range(wa.associations)

\* C18: a ListAccounts whose discovery completed returns one entry for each
\* account of the directory, each listing the applications whose status is
\* Associated, all of them and no other, associationCount being their number.
C18_ListsAssociatedExactly ==
    [][pc = "listWait" /\ pc' = "idle" /\ IsReady
         => LET v == result'.value
            IN /\ v.count = Cardinality(directory)
               /\ DOMAIN v.accounts = 1..v.count
               /\ {v.accounts[i].id : i \in 1..v.count} = directory
               /\ \A i \in 1..v.count :
                    /\ ListedApps(v.accounts[i]) =
                          {p \in Apps : status[v.accounts[i].id][p] = "Associated"}
                    /\ v.accounts[i].associationCount =
                          Cardinality(ListedApps(v.accounts[i]))
                    /\ v.accounts[i].associationCount > 0 =>
                          Len(v.accounts[i].associations) = v.accounts[i].associationCount]_vars

C18_Witness ==
    /\ ListReturned /\ result.value.err = NULL
    /\ result.value.count = 2
    /\ \E i \in 1..2 : /\ result.value.accounts[i].associationCount = 1
                       /\ ~Associated(status, result.value.accounts[i].id)
    /\ \E i \in 1..2 : result.value.accounts[i].associationCount = 0

----------------------------------------------------------------------------
Count(op) == Cardinality({i \in DOMAIN calls : calls[i][1] = op})

\* C19: an invocation issues no provider operation twice: at most one silent
\* acquisition, and only for a non-empty accountID the lookup found; at most one
\* interactive sign-in, and only with allowPrompt while the promise is unsatisfied.
C19_NoRetry ==
    /\ [](/\ \A op \in {"ReadAccountById", "AcquireCredentialSilently",
                        "SignInInteractively", "DiscoverAccounts", "ReadAllAccounts"} :
                 Count(op) <= 1
          /\ InAuthenticate \/ AuthReturned =>
                /\ Issued("AcquireCredentialSilently") => accountID # "" /\ lookup = accountID
                /\ Issued("SignInInteractively") => allowPrompt)
    /\ [][Count("SignInInteractively")' > Count("SignInInteractively")
            => pc = "checkReady" /\ ~IsReady]_vars

C19_Witness ==
    /\ AuthReturned
    /\ result.value = TimeoutOutcome
    /\ Issued("AcquireCredentialSilently") /\ Issued("SignInInteractively")

----------------------------------------------------------------------------
\* C20: a call that issued the interactive sign-in after the silent attempt
\* timed out returns what the sign-in delivered, never what the silent
\* acquisition delivered late.
C20_InteractiveOutcomeReturned ==
    AuthReturned /\ Issued("SignInInteractively") => ~FromSilent(result.value)

----------------------------------------------------------------------------
\* a step in which Startup runs and returns
StartupReturns == inv' = inv + 1 /\ result'.op = "Startup"

\* a step in which a provider callback runs and completes the promise of the
\* first, of the second thread
Fills1 == promise' # promise /\ promise'.state = "ready"
Fills2 == promise2' # promise2 /\ promise2'.state = "ready"

\* C13: invocations whose requests overlap have distinct telemetry ids; a
\* provider callback completes a promise only if it was issued for the
\* invocation that promise belongs to; and each invocation returns what its
\* own promise holds.
C13_OwnCell ==
    /\ [](pc # "idle" /\ pc2 # "idle" => telemetry # telemetry2)
    /\ [][\A cb \in inflight \ inflight' :
              /\ Fills1 => cb.live /\ cb.owner = 1
              /\ Fills2 => cb.live /\ cb.owner = 2]_vars
    /\ [][/\ pc = "get" /\ pc' = "idle" => result'.value = wrapAuthResult(promise.value)
          /\ pc2 = "listWait" /\ pc2' = "idle" =>
                 (result2'.value.err = NULL) = (promise2.state = "ready")]_vars

\* C14: Startup returns null exactly when it succeeded; it does not start the
\* provider when OleInitialize failed; and when it fails the caller thread's
\* OLE initialization count is what it was before the call.
C14_StartupReleasesOnFailure ==
    [][StartupReturns =>
          /\ (result'.err = NULL) = started'
          /\ result'.err = OleInitFailed =>
                 ~\E i \in DOMAIN calls' : calls'[i][1] = "OneAuth::Startup"
          /\ result'.err # NULL => oleCount' = oleCount]_vars

----------------------------------------------------------------------------
\* C21: when an iteration of the pump loop has found both the promise ready
\* and the deadline elapsed, the next step of Authenticate returns the Timeout
\* outcome; future.get is reached only when the deadline was not found elapsed.
C21_TimeoutTakesPrecedence ==
    /\ [][pc = "pumpTest" /\ ready /\ timedOut /\ pc' # pc =>
              /\ pc' = "idle"
              /\ result' = [op |-> "Authenticate", value |-> TimeoutOutcome]]_vars
    /\ [](pc = "get" => ~timedOut)

\* an iteration that has serviced an event (and posted the quit message of
\* line 203) has found the promise satisfied and the deadline elapsed
C21_Witness ==
    /\ pc = "pumpTest" /\ ready /\ timedOut
    /\ IsReady /\ quitPosted
    /\ Issued("SignInInteractively")

----------------------------------------------------------------------------
\* a step of a discovery callback that reported incomplete discovery: it adds
\* to the directory and stays registered
IncompleteDiscovery == inflight' = inflight /\ directory' # directory

\* a step of a discovery callback that reported completion and unregistered
CompletedDiscovery == \E cb \in inflight \ inflight' : cb.kind = "discover"

\* the step in which the wait of ListAccounts ends and ListAccounts returns
ListWaitReleased == pc = "listWait" /\ pc' = "idle"

\* C22 as stated: an incomplete discovery result leaves the promise alone; the
\* promise is satisfied once, from empty, by a completed discovery; and the
\* wait ends only with the promise satisfied, the directory being read then.
C22_ReleasedOnlyByCompletion ==
    /\ [][IncompleteDiscovery => UNCHANGED <<promise, promise2>>]_vars
    /\ [][pc = "listWait" /\ Fills1 => promise = Empty /\ CompletedDiscovery]_vars
    /\ [][ListWaitReleased => IsReady /\ Issued("ReadAllAccounts")']_vars

\* C22, amended: the wait ends with the promise satisfied or with the deadline
\* of timeoutSeconds elapsed, and the directory is read exactly when the
\* promise was satisfied.
C22_ReleasedByCompletionOrDeadline ==
    /\ [][IncompleteDiscovery => UNCHANGED <<promise, promise2>>]_vars
    /\ [][pc = "listWait" /\ Fills1 => promise = Empty /\ CompletedDiscovery]_vars
    /\ [][ListWaitReleased =>
              /\ IsReady \/ now - waitStart >= timeoutSeconds
              /\ Issued("ReadAllAccounts")' = IsReady]_vars

\* a first ListAccounts whose own callback reported completion has read the
\* directory and returned it
C22_Witness ==
    /\ ListReturned /\ inv = 1 /\ ~crashed
    /\ result.value.err = NULL
    /\ Issued("ReadAllAccounts")
    /\ inflight = {}

====
